---- MODULE Spec2Model ----
(***************************************************************************)
(* AsyncGroupedDomainResolver (src/filter.py): the round-based retry loop  *)
(* of batch_resolve, the sharding and merging of resolve_in_round, the     *)
(* semaphore-gated workers of resolve_group and the total boolean          *)
(* resolve_domain.                                                         *)
(*                                                                         *)
(* A domain is a natural number standing for one normalised domain string. *)
(* Python lists are sequences.  A coroutine is modelled by the steps       *)
(* between its suspension points: a worker runs from the semaphore to the  *)
(* issued query (Acquire), the network settles the query (Respond), and    *)
(* the worker runs from the settled query to its end (Resume).             *)
(***************************************************************************)
EXTENDS Integers, Sequences, FiniteSets, Bags, TLC

\* ------------------------------------------------------------------ bounds

\* Longest input list of the small scenarios.  Every shuffle, every shard
\* assignment, every outcome and every worker interleaving is explored for
\* these.
MaxDomains == 2
\* The large duplicate-free inputs have min_success_count + 1 ..
\* min_success_count + LargeExtra domains, so that a second round can run.
LargeExtra == 1
\* Largest number of endpoints in dns_servers.
MaxDns == 2
\* Largest concurrency_per_group.
MaxConcurrency == 2
\* Largest max_rounds a scenario passes.
MaxRoundsArg == 3

\* The most urls of FILTER_URLS.
MaxSources == 3

\* ------------------------------------------------------- program constants

\* min_success_count = 10
min_success_count == 10
\* max_rounds: int = 5
DefaultMaxRounds == 5

\* ---------------------------------------------------------------- helpers

Range(s) == {s[i] : i \in 1..Len(s)}

\* The number of entries of list s equal to d.
Count(s, d) == Cardinality({i \in 1..Len(s) : s[i] = d})

\* Two lists hold the same entries the same number of times.
SameEntries(s, t) ==
    /\ Len(s) = Len(t)
    /\ \A d \in Range(s) \cup Range(t) : Count(s, d) = Count(t, d)

NoDuplicates(s) == \A i, j \in 1..Len(s) : s[i] = s[j] => i = j

Reverse(s) == [i \in 1..Len(s) |-> s[Len(s) + 1 - i]]

\* ------------------------------------------------------------------ state

VARIABLES
    \* the constructor's and batch_resolve's arguments
    domains,                \* batch_resolve's parameter domains
    dns_servers,            \* self.dns_servers, the endpoints 1..n
    concurrency_per_group,  \* self.concurrency_per_group
    max_rounds,             \* batch_resolve's parameter max_rounds, as bound
    max_rounds_given,       \* whether the caller passed max_rounds
    net,                    \* the outcomes the network can give a query
    \* batch_resolve
    pc,                     \* "loop", "gather", "summary", "done", "raised"
    remaining_domains,
    all_valid,
    round_num,
    valid,                  \* the last round's result, valid
    failed,                 \* the last round's result, failed
    reported_rounds,        \* the figure printed as rounds executed
    rounds_run,             \* how many times resolve_in_round was called
    \* resolve_in_round
    round_domains,          \* its parameter domains
    domain_groups,          \* one shard per endpoint
    results,                \* what each returned resolve_group gave
    \* resolve_group, one per launched endpoint
    gstate,                 \* "idle", "running", "returned"
    waiting,                \* the workers not yet through the semaphore
    semaphore,              \* the semaphore's value
    g_valid,                \* the list valid
    g_failed,               \* the list failed
    \* the queries in flight, each [domain, dns, round, outcome]
    inflight,
    issued,                 \* the queries issued in the running round
    \* main
    main_pc,                \* "fetch_domains", "fetch_filters", "apply_filter",
                            \* "batch", "returned", "raised"; "direct" when
                            \* batch_resolve is called without main
    source,                 \* SOURCE_URL: whether it answers, and its text
    filter_sources,         \* FILTER_URLS: for each, the same
    raw_domains,            \* main's domains, as fetched
    url_index,              \* the url of the loop of fetch_filter_domains
    fetched,                \* the urls that loop has requested
    filter_domains,         \* the filter set
    filtered_domains,       \* apply_filter's first result
    filtered_count          \* apply_filter's second result

vars == <<domains, dns_servers, concurrency_per_group, max_rounds,
          max_rounds_given, net, pc, remaining_domains, all_valid, round_num,
          valid, failed, reported_rounds, rounds_run, round_domains,
          domain_groups, results, gstate, waiting, semaphore, g_valid,
          g_failed, inflight, issued, main_pc, source, filter_sources,
          raw_domains, url_index, fetched, filter_domains, filtered_domains,
          filtered_count>>

mainvars == <<main_pc, source, filter_sources, raw_domains, url_index,
              fetched, filter_domains, filtered_domains, filtered_count>>

config == <<domains, dns_servers, concurrency_per_group, max_rounds,
            max_rounds_given, net>>

batch == <<remaining_domains, all_valid, round_num, valid, failed,
           reported_rounds, rounds_run>>

Servers == 1..dns_servers

\* ------------------------------------------------------- resolve_domain

\* What one query can come to: an answer, or one of the failures.
Outcomes ==
    {"answer", "timeout", "nxdomain", "servfail", "malformed", "connection"}

\* await resolver.query(domain, 'A') raises unless the query is answered.
QueryRaises(outcome) == outcome # "answer"

\* An except clause that names the timeout only.
ExceptCatches_TimeoutOnly(outcome) == outcome = "timeout"

\* The bare except clause catches whatever the query raised.
ExceptCatches(outcome) == TRUE

\* resolve_domain: "true", "false", or "exception" when the exception of the
\* query leaves the function.
ResolveDomain(outcome) ==
    IF ~QueryRaises(outcome) THEN "true"
    ELSE IF ExceptCatches(outcome) THEN "false"
    ELSE "exception"

\* -------------------------------------------------------- resolve_group

Query(d, g) == [domain |-> d, dns |-> g, round |-> round_num,
                outcome |-> "pending"]

InFlight(g) == {q \in BagToSet(inflight) : q.dns = g}

\* The number of queries in flight against endpoint g.
InFlightCount(g) == BagCardinality([q \in InFlight(g) |-> inflight[q]])

\* A gate that lets one worker too many in.
SemaphoreFree_OffByOne(g) == semaphore[g] >= 0

\* async with semaphore: a worker enters when the value is positive.
SemaphoreFree(g) == semaphore[g] > 0

\* A worker that leaves without giving its slot back.
Release_Forgotten(value) == value

\* Leaving async with semaphore gives the slot back.
Release(value) == value + 1

\* A wait that is over as soon as every worker has issued its query.
AllWorkersDone_Started(g) == waiting[g] = <<>>

\* await asyncio.gather(*[worker(d) for d in domains]) is over when every
\* worker of the shard has run to its end.
AllWorkersDone(g) == waiting[g] = <<>> /\ InFlight(g) = {}

\* A worker, created in the order of the shard, passes the semaphore and
\* issues its query.
Acquire(g) ==
    /\ pc = "gather"
    /\ gstate[g] = "running"
    /\ waiting[g] # <<>>
    /\ SemaphoreFree(g)
    /\ semaphore' = [semaphore EXCEPT ![g] = @ - 1]
    /\ waiting' = [waiting EXCEPT ![g] = Tail(@)]
    /\ inflight' = inflight (+) SetToBag({Query(Head(waiting[g]), g)})
    /\ issued' = issued (+) SetToBag({<<Head(waiting[g]), g>>})
    /\ UNCHANGED <<mainvars, config, pc, batch, round_domains, domain_groups,
                   results, gstate, g_valid, g_failed>>

\* The network settles a query in flight: it is answered, or it fails in
\* one of the ways the scenario's network can fail.
Respond(q, outcome) ==
    /\ pc = "gather"
    /\ q \in BagToSet(inflight)
    /\ q.outcome = "pending"
    /\ outcome \in net
    /\ inflight' = (inflight (-) SetToBag({q}))
                       (+) SetToBag({[q EXCEPT !.outcome = outcome]})
    /\ UNCHANGED <<mainvars, issued, config,
                   pc, batch, round_domains, domain_groups,
                   results, gstate, waiting, semaphore, g_valid, g_failed>>

\* The worker of a settled query runs to its end: resolve_domain returns,
\* the domain is appended to valid or to failed, the semaphore is released.
\* An exception leaving resolve_domain leaves the worker, the two gathers
\* and batch_resolve.
Resume(q) ==
    /\ pc = "gather"
    /\ q \in BagToSet(inflight)
    /\ q.outcome # "pending"
    /\ inflight' = inflight (-) SetToBag({q})
    /\ semaphore' = [semaphore EXCEPT ![q.dns] = Release(@)]
    /\ LET r == ResolveDomain(q.outcome)
       IN  /\ g_valid' = IF r = "true"
                         THEN [g_valid EXCEPT ![q.dns] = Append(@, q.domain)]
                         ELSE g_valid
           /\ g_failed' = IF r = "false"
                          THEN [g_failed EXCEPT ![q.dns] = Append(@, q.domain)]
                          ELSE g_failed
           /\ pc' = IF r = "exception" THEN "raised" ELSE pc
    /\ UNCHANGED <<mainvars, issued, config,
                   batch, round_domains, domain_groups, results,
                   gstate, waiting>>

\* return valid, failed
GroupReturn(g) ==
    /\ pc = "gather"
    /\ gstate[g] = "running"
    /\ AllWorkersDone(g)
    /\ gstate' = [gstate EXCEPT ![g] = "returned"]
    /\ results' = [results EXCEPT ![g] =
                      [valid |-> g_valid[g], failed |-> g_failed[g]]]
    /\ UNCHANGED <<mainvars, issued, config,
                   pc, batch, round_domains, domain_groups,
                   waiting, semaphore, g_valid, g_failed, inflight>>

\* ----------------------------------------------------- resolve_in_round

\* random.shuffle(domains_shuffled): any order of the list.  A list longer
\* than MaxDomains is taken in two of its orders only.
Shuffles(s) ==
    IF Len(s) <= MaxDomains
    THEN {[i \in 1..Len(s) |-> s[p[i]]] : p \in Permutations(1..Len(s))}
    ELSE {s, Reverse(s)}

\* The draws of random.randint(0, len(self.dns_servers) - 1), one for each
\* domain of the shuffled list.
Draws(s) == [1..Len(s) -> Servers]

\* The shard of endpoint g: the domains whose draw was g, appended in the
\* order of the shuffled list.
Shard(s, draw, g) ==
    LET at == SelectSeq([i \in 1..Len(s) |-> i], LAMBDA i : draw[i] = g)
    IN  [j \in 1..Len(at) |-> s[at[j]]]

\* A task for every endpoint, whether it was dealt a domain or not.
Launched_All(groups, g) == TRUE

\* tasks = [... for group, dns in zip(domain_groups, self.dns_servers)
\* if group]: a resolve_group is launched for the non-empty shards.
Launched(groups, g) == groups[g] # <<>>

\* A wait that ends with the first shard to return.
AllShardsJoined_FirstCompleted == \E g \in Servers : gstate[g] = "returned"

\* results = await asyncio.gather(*tasks) is over when every launched
\* resolve_group has returned.
AllShardsJoined == \A g \in Servers : gstate[g] # "running"

\* all_valid = valid instead of all_valid.extend(valid): the valid list of
\* the last result only.
MergeValid_Overwrite(res, g) == res[dns_servers].valid

\* all_valid.extend(valid) / all_failed.extend(failed) over the results, in
\* the order of the tasks.
RECURSIVE MergeValid(_, _)
MergeValid(res, g) ==
    IF g > dns_servers THEN <<>>
    ELSE res[g].valid \o MergeValid(res, g + 1)

\* all_failed = failed instead of all_failed.extend(failed): the failed
\* list of the last result only.
MergeFailed_Overwrite(res, g) == res[dns_servers].failed

RECURSIVE MergeFailed(_, _)
MergeFailed(res, g) ==
    IF g > dns_servers THEN <<>>
    ELSE res[g].failed \o MergeFailed(res, g + 1)

NoResult == [valid |-> <<>>, failed |-> <<>>]

\* --------------------------------------------------------- batch_resolve

\* A loop that allows one round more than max_rounds.
LoopCondition_OffByOne ==
    remaining_domains # <<>> /\ round_num <= max_rounds + 1

\* A loop that does not look at what remains.
LoopCondition_NoEmptyCheck == round_num <= max_rounds

\* A loop that stops one round short of max_rounds.
LoopCondition_Strict == remaining_domains # <<>> /\ round_num < max_rounds

\* while remaining_domains and round_num <= max_rounds
LoopCondition == remaining_domains # <<>> /\ round_num <= max_rounds

\* A break taken only when a round resolved nothing.
BelowThreshold_Zero(v) == Len(v) = 0

\* A comparison turned around: the break is taken by the rounds that
\* resolved many domains.
BelowThreshold_Inverted(v) == Len(v) > min_success_count

\* if len(valid) < min_success_count: break
BelowThreshold(v) == Len(v) < min_success_count

\* all_valid = valid instead of all_valid.extend(valid).
ExtendAllValid_Overwrite(acc, v) == v

\* all_valid.extend(valid)
ExtendAllValid(acc, v) == acc \o v

\* remaining_domains.extend(failed) instead of remaining_domains = failed.
NextRemaining_Extend(rem, f) == rem \o f

\* remaining_domains = failed
NextRemaining(rem, f) == f

\* The groups of a round that has not started or is over.
NoGroups(x) == [g \in Servers |-> x]

\* The loop condition holds: resolve_in_round shuffles the remaining
\* domains, deals them to the endpoints, launches a resolve_group for each
\* non-empty shard and waits for them.
EnterRound ==
    /\ pc = "loop"
    /\ LoopCondition
    /\ \E s \in Shuffles(remaining_domains) : \E draw \in Draws(s) :
        LET groups == [g \in Servers |-> Shard(s, draw, g)]
        IN  /\ domain_groups' = groups
            /\ gstate' = [g \in Servers |->
                            IF Launched(groups, g) THEN "running" ELSE "idle"]
            /\ waiting' = [g \in Servers |->
                            IF Launched(groups, g) THEN groups[g] ELSE <<>>]
            /\ semaphore' = [g \in Servers |->
                            IF Launched(groups, g)
                            THEN concurrency_per_group ELSE 0]
    /\ round_domains' = remaining_domains
    /\ results' = NoGroups(NoResult)
    /\ g_valid' = NoGroups(<<>>)
    /\ g_failed' = NoGroups(<<>>)
    /\ rounds_run' = rounds_run + 1
    /\ pc' = "gather"
    /\ UNCHANGED <<mainvars, issued, config,
                   remaining_domains, all_valid, round_num, valid,
                   failed, reported_rounds, inflight>>

\* Every shard has returned: resolve_in_round merges the results and
\* returns them; batch_resolve extends all_valid, replaces the remaining
\* domains by the failed ones, and then breaks or counts the round.
JoinRound ==
    /\ pc = "gather"
    /\ AllShardsJoined
    /\ LET v == MergeValid(results, 1)
           f == MergeFailed(results, 1)
       IN  /\ valid' = v
           /\ failed' = f
           /\ all_valid' = ExtendAllValid(all_valid, v)
           /\ remaining_domains' = NextRemaining(remaining_domains, f)
           /\ IF BelowThreshold(v)
              THEN pc' = "summary" /\ round_num' = round_num
              ELSE pc' = "loop" /\ round_num' = round_num + 1
    /\ domain_groups' = NoGroups(<<>>)
    /\ results' = NoGroups(NoResult)
    /\ gstate' = NoGroups("idle")
    /\ waiting' = NoGroups(<<>>)
    /\ semaphore' = NoGroups(0)
    /\ g_valid' = NoGroups(<<>>)
    /\ g_failed' = NoGroups(<<>>)
    /\ issued' = EmptyBag
    /\ UNCHANGED <<mainvars, config, reported_rounds, rounds_run,
                   round_domains, inflight>>

\* The loop condition fails: the loop is left.
ExitLoop ==
    /\ pc = "loop"
    /\ ~LoopCondition
    /\ pc' = "summary"
    /\ UNCHANGED <<mainvars, issued, config,
                   batch, round_domains, domain_groups, results,
                   gstate, waiting, semaphore, g_valid, g_failed, inflight>>

\* The results are saved and the summary is printed, with round_num - 1 as
\* the rounds executed.
Summary ==
    /\ pc = "summary"
    /\ reported_rounds' = round_num - 1
    /\ pc' = "done"
    /\ UNCHANGED <<mainvars, issued, config,
                   remaining_domains, all_valid, round_num, valid,
                   failed, rounds_run, round_domains, domain_groups, results,
                   gstate, waiting, semaphore, g_valid, g_failed, inflight>>

\* -------------------------------------------------------------- scenarios

\* A network whose queries are answered or time out.
AnswerOrTimeout == {"answer", "timeout"}

Distinct(n) == [i \in 1..n |-> i]

Copies(n) == [i \in 1..n |-> 1]

\* Small inputs: duplicate-free lists and lists of one repeated domain.
SmallInputs ==
    {Distinct(n) : n \in 0..MaxDomains} \cup {Copies(n) : n \in 2..MaxDomains}

\* Large duplicate-free inputs: enough domains for a round to reach the
\* threshold and leave some for the next.
LargeInputs ==
    {Distinct(n) : n \in (min_success_count + 1)..(min_success_count + LargeExtra)}

Scenario(d, n, k, given, r, o) ==
    [domains |-> d, dns |-> n, k |-> k, given |-> given, max_rounds |-> r,
     net |-> o]

\* A default one round larger.
BoundMaxRounds_OneMore(given, r) == IF given THEN r ELSE DefaultMaxRounds + 1

\* max_rounds as the call binds it: the argument, or the default.
BoundMaxRounds(given, r) == IF given THEN r ELSE DefaultMaxRounds

\* A small input, any endpoints and concurrency, any outcome of a query;
\* max_rounds is 0 or not passed.
SmallScenarios ==
    {Scenario(d, n, k, given, BoundMaxRounds(given, 0), Outcomes) :
        d \in SmallInputs, n \in 1..MaxDns, k \in 1..MaxConcurrency,
        given \in BOOLEAN}

\* A large duplicate-free input, one endpoint, one worker at a time, queries
\* answered or timing out; max_rounds is 1 or MaxRoundsArg, more rounds than
\* such an input can take.
LargeScenarios ==
    {Scenario(d, 1, 1, TRUE, r, AnswerOrTimeout) :
        d \in LargeInputs, r \in {1, MaxRoundsArg}}

\* A list of one repeated domain, long enough for a second round, resolved
\* by two endpoints with two workers each at a time.
RepeatedScenarios ==
    {Scenario(Copies(min_success_count + 1), 2, 2, TRUE, MaxRoundsArg,
              AnswerOrTimeout)}

\* A list of one repeated domain, long enough for each of DefaultMaxRounds
\* rounds to reach the threshold and leave a domain over, resolved without
\* passing max_rounds.
DefaultScenarios ==
    {Scenario(Copies(DefaultMaxRounds * min_success_count + 1), 1, 1, FALSE,
              BoundMaxRounds(FALSE, 0), AnswerOrTimeout)}

Scenarios == SmallScenarios \cup LargeScenarios \cup RepeatedScenarios

\* The scenarios that do not pass max_rounds.
DefaultedScenarios ==
    {sc \in SmallScenarios : ~sc.given} \cup DefaultScenarios

\* No list source: batch_resolve is called without main.
NoSource == [ok |-> TRUE, text |-> <<>>]

InitWith(sc) ==
    /\ domains = sc.domains
    /\ dns_servers = sc.dns
    /\ concurrency_per_group = sc.k
    /\ max_rounds = sc.max_rounds
    /\ max_rounds_given = sc.given
    /\ net = sc.net
    /\ pc = "loop"
    /\ remaining_domains = sc.domains
    /\ all_valid = <<>>
    /\ round_num = 1
    /\ valid = <<>>
    /\ failed = <<>>
    /\ reported_rounds = 0
    /\ rounds_run = 0
    /\ round_domains = <<>>
    /\ domain_groups = [g \in 1..sc.dns |-> <<>>]
    /\ results = [g \in 1..sc.dns |-> NoResult]
    /\ gstate = [g \in 1..sc.dns |-> "idle"]
    /\ waiting = [g \in 1..sc.dns |-> <<>>]
    /\ semaphore = [g \in 1..sc.dns |-> 0]
    /\ g_valid = [g \in 1..sc.dns |-> <<>>]
    /\ g_failed = [g \in 1..sc.dns |-> <<>>]
    /\ inflight = EmptyBag
    /\ issued = EmptyBag
    /\ main_pc = "direct"
    /\ source = NoSource
    /\ filter_sources = <<>>
    /\ raw_domains = <<>>
    /\ url_index = 1
    /\ fetched = {}
    /\ filter_domains = {}
    /\ filtered_domains = <<>>
    /\ filtered_count = 0

Init == \E sc \in Scenarios : InitWith(sc)

Next ==
    \/ EnterRound
    \/ \E g \in Servers : Acquire(g)
    \/ \E q \in BagToSet(inflight) : \E o \in Outcomes : Respond(q, o)
    \/ \E q \in BagToSet(inflight) : Resume(q)
    \/ \E g \in Servers : GroupReturn(g)
    \/ JoinRound
    \/ ExitLoop
    \/ Summary

Spec == Init /\ [][Next]_vars

\* The runs of batch_resolve that leave max_rounds to its default.
DefaultInit == \E sc \in DefaultedScenarios : InitWith(sc)

DefaultSpec == DefaultInit /\ [][Next]_vars

\* The scenarios, each with a network whose queries are answered or time
\* out after self.timeout.
FairInit ==
    \E sc \in Scenarios : InitWith([sc EXCEPT !.net = AnswerOrTimeout])

\* Every ready coroutine is run by the event loop, and every query in flight
\* is settled.
FairSpec == FairInit /\ [][Next]_vars /\ WF_vars(Next)

\* ------------------------------------------------------------------- main

\* The lines of a fetched text: a domain in lower case, a domain in capitals
\* with blanks around it, a blank line, a comment line.
Lower(n) == [kind |-> "lower", name |-> n]

Padded(n) == [kind |-> "padded", name |-> n]

Blank == [kind |-> "blank", name |-> 0]

Comment == [kind |-> "comment", name |-> 0]

\* line.strip() and not line.strip().startswith("#")
IsEntry(line) == line.kind \notin {"blank", "comment"}

\* line.strip().lower(): the domain in lower case without the blanks.
Normalise(line) == line.name

\* [line.strip().lower() for line in text.split("\n") if line.strip() and
\* not line.strip().startswith("#")]
RECURSIVE ParseLines(_)
ParseLines(text) ==
    IF text = <<>> THEN <<>>
    ELSE (IF IsEntry(Head(text)) THEN <<Normalise(Head(text))>> ELSE <<>>)
             \o ParseLines(Tail(text))

\* The entries of set S in ascending order.
RECURSIVE Ascending(_)
Ascending(S) ==
    IF S = {} THEN <<>>
    ELSE LET m == CHOOSE x \in S : \A y \in S : x <= y
         IN  <<m>> \o Ascending(S \ {m})

\* list(set(domains) - filter_domains): the domains left, once each and in
\* the order of the set.
FilterDomains_SetDifference(doms, filt) == Ascending(Range(doms) \ filt)

\* [domain for domain in domains if domain not in filter_domains]
FilterDomains(doms, filt) == SelectSeq(doms, LAMBDA d : d \notin filt)

\* filtered_count = len(domains) - len(filtered_domains)
FilteredCount(doms, kept) == Len(doms) - Len(kept)

\* A try around the whole loop: the first failure leaves the loop.
AfterFailure_LeaveLoop(i) == Len(filter_sources) + 1

\* except Exception inside the for loop: the loop goes on with the next url.
AfterFailure(i) == i + 1

\* The texts SOURCE_URL may hold.
SourceTexts ==
    {<<>>,
     <<Comment, Blank>>,
     <<Lower(1)>>,
     <<Lower(1), Lower(1)>>,
     <<Comment, Padded(2), Blank, Lower(1)>>,
     <<Lower(2), Lower(3), Lower(1)>>}

\* The texts a url of FILTER_URLS may hold.
FilterTexts == {<<Lower(1)>>, <<Comment, Padded(2), Lower(4)>>}

\* SOURCE_URL answers with a text, or the request fails.
Sources ==
    {[ok |-> TRUE, text |-> t] : t \in SourceTexts}
        \cup {[ok |-> FALSE, text |-> <<>>]}

\* FILTER_URLS: up to MaxSources urls, each answering with a text or failing.
FilterSources ==
    UNION {[1..n -> [ok : BOOLEAN, text : FilterTexts]] : n \in 0..MaxSources}

\* main before its first request: the resolver is constructed, batch_resolve
\* is not called yet.
MainInit ==
    /\ source \in Sources
    /\ filter_sources \in FilterSources
    /\ main_pc = "fetch_domains"
    /\ raw_domains = <<>>
    /\ url_index = 1
    /\ fetched = {}
    /\ filter_domains = {}
    /\ filtered_domains = <<>>
    /\ filtered_count = 0
    /\ domains = <<>>
    /\ dns_servers = MaxDns
    /\ concurrency_per_group = MaxConcurrency
    /\ max_rounds = DefaultMaxRounds
    /\ max_rounds_given = TRUE
    /\ net = AnswerOrTimeout
    /\ pc = "idle"
    /\ remaining_domains = <<>>
    /\ all_valid = <<>>
    /\ round_num = 1
    /\ valid = <<>>
    /\ failed = <<>>
    /\ reported_rounds = 0
    /\ rounds_run = 0
    /\ round_domains = <<>>
    /\ domain_groups = [g \in 1..MaxDns |-> <<>>]
    /\ results = [g \in 1..MaxDns |-> NoResult]
    /\ gstate = [g \in 1..MaxDns |-> "idle"]
    /\ waiting = [g \in 1..MaxDns |-> <<>>]
    /\ semaphore = [g \in 1..MaxDns |-> 0]
    /\ g_valid = [g \in 1..MaxDns |-> <<>>]
    /\ g_failed = [g \in 1..MaxDns |-> <<>>]
    /\ inflight = EmptyBag
    /\ issued = EmptyBag

resolver == <<pc, batch, round_domains, domain_groups, results, gstate,
              waiting, semaphore, g_valid, g_failed, inflight, issued>>

\* domains = await resolver.fetch_domains(SOURCE_URL): a failed request
\* raises out of main.
FetchDomains ==
    /\ main_pc = "fetch_domains"
    /\ IF source.ok
       THEN /\ raw_domains' = ParseLines(source.text)
            /\ main_pc' = "fetch_filters"
       ELSE /\ raw_domains' = raw_domains
            /\ main_pc' = "raised"
    /\ UNCHANGED <<source, filter_sources, url_index, fetched, filter_domains,
                   filtered_domains, filtered_count, config, resolver>>

\* One turn of the loop of fetch_filter_domains: the url is requested, and
\* its entries are added to the set unless the request raised.
FetchFilter ==
    /\ main_pc = "fetch_filters"
    /\ url_index <= Len(filter_sources)
    /\ fetched' = fetched \cup {url_index}
    /\ IF filter_sources[url_index].ok
       THEN /\ filter_domains' =
                   filter_domains
                       \cup Range(ParseLines(filter_sources[url_index].text))
            /\ url_index' = url_index + 1
       ELSE /\ filter_domains' = filter_domains
            /\ url_index' = AfterFailure(url_index)
    /\ UNCHANGED <<main_pc, source, filter_sources, raw_domains,
                   filtered_domains, filtered_count, config, resolver>>

\* fetch_filter_domains returns, apply_filter is applied, and main returns
\* when nothing is left or else calls batch_resolve with max_rounds=5.
ApplyFilter ==
    /\ main_pc = "fetch_filters"
    /\ url_index > Len(filter_sources)
    /\ LET kept == FilterDomains(raw_domains, filter_domains)
       IN  /\ filtered_domains' = kept
           /\ filtered_count' = FilteredCount(raw_domains, kept)
           /\ IF kept = <<>>
              THEN /\ main_pc' = "returned"
                   /\ UNCHANGED <<domains, remaining_domains, pc>>
              ELSE /\ main_pc' = "batch"
                   /\ domains' = kept
                   /\ remaining_domains' = kept
                   /\ pc' = "loop"
    /\ UNCHANGED <<source, filter_sources, raw_domains, url_index, fetched,
                   filter_domains, dns_servers, concurrency_per_group,
                   max_rounds, max_rounds_given, net, all_valid, round_num,
                   valid, failed, reported_rounds, rounds_run, round_domains,
                   domain_groups, results, gstate, waiting, semaphore,
                   g_valid, g_failed, inflight, issued>>

\* batch_resolve has returned: main is over.
MainReturn ==
    /\ main_pc = "batch"
    /\ pc = "done"
    /\ main_pc' = "returned"
    /\ UNCHANGED <<source, filter_sources, raw_domains, url_index, fetched,
                   filter_domains, filtered_domains, filtered_count, config,
                   resolver>>

\* batch_resolve called with an empty list, without main.
EmptyInit == \E sc \in {x \in SmallScenarios : x.domains = <<>>} : InitWith(sc)

MainNext ==
    \/ FetchDomains
    \/ FetchFilter
    \/ ApplyFilter
    \/ MainReturn
    \/ Next

\* The runs of main, and the calls of batch_resolve with an empty list.
MainSpec == (MainInit \/ EmptyInit) /\ [][MainNext]_vars

\* ------------------------------------------------------------------ claims

\* The loop of batch_resolve is between two rounds, or over.
AtRoundBoundary == pc \in {"loop", "summary", "done"}

\* The shards of a round, one after the other.
RECURSIVE Flatten(_, _)
Flatten(groups, g) ==
    IF g > dns_servers THEN <<>> ELSE groups[g] \o Flatten(groups, g + 1)

\* The outputs of the returned shards, one after the other.
RECURSIVE ShardOutputs(_)
ShardOutputs(g) ==
    IF g > dns_servers THEN <<>>
    ELSE results[g].valid \o results[g].failed \o ShardOutputs(g + 1)

\* Every entry of list s is an entry of list t, at most as many times.
SubEntries(s, t) == \A d \in Range(s) : Count(s, d) <= Count(t, d)

IsPrefix(s, t) == Len(s) <= Len(t) /\ SubSeq(t, 1, Len(s)) = s

\* C1: on duplicate-free input, at every round boundary (before round 1,
\* after each round, at return) the resolved list and the remaining list
\* share no domain, together hold exactly the domains of the input, and
\* hold none of them twice.
C1_Partition ==
    (NoDuplicates(domains) /\ AtRoundBoundary) =>
        /\ Range(all_valid) \cap Range(remaining_domains) = {}
        /\ Range(all_valid) \cup Range(remaining_domains) = Range(domains)
        /\ NoDuplicates(all_valid \o remaining_domains)

\* C1 witness: a duplicate-free input went through two rounds, some of it
\* resolved and some of it left unresolved at return.
C1_Witness ==
    /\ pc = "done"
    /\ rounds_run = 2
    /\ NoDuplicates(domains)
    /\ all_valid # <<>>
    /\ remaining_domains # <<>>

\* C2: a further round is entered only after a round that resolved at least
\* min_success_count domains; after a round that resolved fewer the run is
\* over with the failed list of that round as the unresolved result; and
\* when every query failed, exactly one round ran, nothing is resolved and
\* the whole input is unresolved.
C2_EarlyTermination ==
    /\ (pc = "loop" /\ rounds_run >= 1) => Len(valid) >= min_success_count
    /\ (pc = "gather" /\ rounds_run >= 2) => Len(valid) >= min_success_count
    /\ (AtRoundBoundary /\ rounds_run >= 1 /\ Len(valid) < min_success_count)
          => (pc \in {"summary", "done"} /\ remaining_domains = failed)
    /\ (pc = "done" /\ all_valid = <<>> /\ domains # <<>> /\ max_rounds >= 1)
          => (rounds_run = 1 /\ SameEntries(remaining_domains, domains))

\* C2 witness: the first round resolved some domains but fewer than the
\* threshold, domains remain and the round budget is not used up, and the
\* run is over after that one round.
C2_Witness ==
    /\ pc = "done"
    /\ rounds_run = 1
    /\ valid # <<>>
    /\ Len(valid) < min_success_count
    /\ remaining_domains # <<>>
    /\ round_num < max_rounds

\* C3: at most max_rounds rounds run, and a run that used its budget ends
\* with the failed list of the last round as the unresolved result.
C3_RoundBudget ==
    /\ rounds_run <= max_rounds
    /\ (pc \in {"summary", "done"} /\ rounds_run >= 1
           /\ rounds_run = max_rounds) => remaining_domains = failed

\* C3 witness: the run ended because the budget was used up: the last
\* allowed round reached the threshold and left domains unresolved.
C3_Witness ==
    /\ pc = "done"
    /\ rounds_run = max_rounds
    /\ Len(valid) >= min_success_count
    /\ remaining_domains # <<>>

\* C4: the queries in flight against one endpoint never outnumber
\* concurrency_per_group.
C4_AdmissionBound ==
    \A g \in Servers : InFlightCount(g) <= concurrency_per_group

\* C4 witness: a shard larger than the gate: concurrency_per_group queries
\* are in flight, more than one, and a worker is still waiting.
C4_Witness ==
    \E g \in Servers :
        /\ concurrency_per_group > 1
        /\ InFlightCount(g) = concurrency_per_group
        /\ waiting[g] # <<>>

\* C5: in a round the shards together hold the round's input, each entry
\* once; when every shard has returned their outputs together hold it too;
\* and the merged result holds each entry of the input once, in valid or in
\* failed, never in both.
C5_ShardCoverage ==
    /\ pc = "gather" => SameEntries(Flatten(domain_groups, 1), round_domains)
    /\ (pc = "gather" /\ \A g \in Servers : gstate[g] # "running")
           => SameEntries(ShardOutputs(1), round_domains)
    /\ (AtRoundBoundary /\ rounds_run >= 1) =>
           /\ SameEntries(valid \o failed, round_domains)
           /\ NoDuplicates(round_domains)
                  => Range(valid) \cap Range(failed) = {}

\* C5 witness: a round over a duplicate-free input of several domains, dealt
\* to several endpoints, has been merged, with a resolved and a failed
\* domain.
C5_Witness ==
    /\ AtRoundBoundary
    /\ rounds_run >= 1
    /\ dns_servers > 1
    /\ valid # <<>>
    /\ failed # <<>>
    /\ NoDuplicates(round_domains)
    /\ Len(round_domains) > 1

\* C6: in every step the resolved list only grows at its end, the remaining
\* list gains no entry, and a step that ends a round leaves the failed list
\* of that round as the remaining list.
C6_Monotonic ==
    [][/\ IsPrefix(all_valid, all_valid')
       /\ SubEntries(remaining_domains', remaining_domains)
       /\ (pc = "gather" /\ pc' \in {"loop", "summary"})
              => remaining_domains' = failed']_vars

\* C6 witness: two rounds ran, and the second added to what the first had
\* resolved.
C6_Witness ==
    /\ pc = "done"
    /\ rounds_run = 2
    /\ valid # <<>>
    /\ Len(all_valid) > Len(valid)

\* C7: every run reaches the end of batch_resolve, and so never raises.
C7_Terminates == <>(pc = "done")

\* C7 witness: a run of several rounds is over with rounds of its budget
\* unused: no cap stopped it.
C7_Witness ==
    /\ pc = "done"
    /\ rounds_run >= 2
    /\ rounds_run < max_rounds

\* C8, as amended: when max_rounds is not passed, at most DefaultMaxRounds
\* rounds run, and the run is over only when nothing remains, or the last
\* round resolved fewer than min_success_count domains, or DefaultMaxRounds
\* rounds have run.
C8_DefaultCap ==
    ~max_rounds_given =>
        /\ rounds_run <= DefaultMaxRounds
        /\ pc = "done" =>
              \/ remaining_domains = <<>>
              \/ Len(valid) < min_success_count
              \/ rounds_run = DefaultMaxRounds

\* C8 witness: max_rounds was not passed, DefaultMaxRounds rounds each
\* reached the threshold, and the run is over with domains remaining.
C8_Witness ==
    /\ ~max_rounds_given
    /\ pc = "done"
    /\ rounds_run = DefaultMaxRounds
    /\ Len(valid) >= min_success_count
    /\ remaining_domains # <<>>

\* C8 as the specification states it: when max_rounds is not passed the
\* run is over only when nothing remains or the last round resolved fewer
\* than min_success_count domains.
C8_Uncapped ==
    (~max_rounds_given /\ pc = "done") =>
        \/ remaining_domains = <<>>
        \/ Len(valid) < min_success_count

\* C9: the worker of a settled query appends its domain to valid exactly
\* when the query was answered and to failed for every failure, and goes
\* on; no exception ever leaves resolve_domain.
C9_TotalBoolean ==
    /\ [](pc # "raised")
    /\ [][\A q \in BagToSet(inflight) :
            (inflight' = inflight (-) SetToBag({q})) =>
               /\ pc' = "gather"
               /\ IF q.outcome = "answer"
                  THEN /\ g_valid' = [g_valid EXCEPT
                                        ![q.dns] = Append(@, q.domain)]
                       /\ g_failed' = g_failed
                  ELSE /\ g_failed' = [g_failed EXCEPT
                                         ![q.dns] = Append(@, q.domain)]
                       /\ g_valid' = g_valid]_vars

\* C9 witness: a worker of a shard has already appended its domain, and the
\* query of another worker of the same shard has failed in a way that is
\* neither an answer nor a timeout and is about to be handled.
C9_Witness ==
    \E g \in Servers :
        /\ g_failed[g] # <<>> \/ g_valid[g] # <<>>
        /\ \E q \in InFlight(g) :
              q.outcome \in Outcomes \ {"answer", "timeout"}

\* C10: every query in flight belongs to the current round, and between two
\* rounds no query is in flight, no worker is waiting and no shard is
\* running.
C10_RoundsSequential ==
    /\ \A q \in BagToSet(inflight) : q.round = round_num /\ pc = "gather"
    /\ AtRoundBoundary =>
          /\ inflight = EmptyBag
          /\ \A g \in Servers : waiting[g] = <<>> /\ gstate[g] = "idle"

\* C10 witness: a query of the second round is in flight.
C10_Witness ==
    \E q \in BagToSet(inflight) : q.round = 2 /\ rounds_run = 2

\* C11: after a first round in which no query failed, the whole input is
\* resolved, nothing remains, and no second round is run.
C11_AllSucceed ==
    /\ []((AtRoundBoundary /\ rounds_run = 1 /\ failed = <<>>) =>
             /\ SameEntries(all_valid, domains)
             /\ remaining_domains = <<>>)
    /\ [][(AtRoundBoundary /\ rounds_run = 1 /\ failed = <<>>)
             => rounds_run' = 1]_vars

\* C11 witness: a run with a budget of several rounds is over after one
\* round that resolved every domain of an input larger than the threshold.
C11_Witness ==
    /\ pc = "done"
    /\ rounds_run = 1
    /\ failed = <<>>
    /\ Len(all_valid) > min_success_count
    /\ max_rounds > 1

\* C12: a resolve_group that has returned has no worker waiting and no
\* query in flight, and its two outputs together hold each entry of its
\* shard once.
C12_GroupPartition ==
    \A g \in Servers : gstate[g] = "returned" =>
        /\ waiting[g] = <<>>
        /\ InFlight(g) = {}
        /\ SameEntries(results[g].valid \o results[g].failed,
                       domain_groups[g])

\* C12 witness: a resolve_group has returned for a shard larger than the
\* gate, with domains in both of its outputs.
C12_Witness ==
    \E g \in Servers :
        /\ gstate[g] = "returned"
        /\ Len(domain_groups[g]) > concurrency_per_group
        /\ results[g].valid # <<>>
        /\ results[g].failed # <<>>

\* C16, as claimed: at the end of batch_resolve the figure printed as the
\* rounds executed is the number of rounds that were run.
C16_ReportedRounds == pc = "done" => reported_rounds = rounds_run

\* C17: when the loop of batch_resolve is left, nothing remains, or the
\* last round resolved fewer than min_success_count domains, or max_rounds
\* rounds were run.
C17_NoPrematureStop ==
    pc \in {"summary", "done"} =>
        \/ remaining_domains = <<>>
        \/ rounds_run >= 1 /\ Len(valid) < min_success_count
        \/ rounds_run = max_rounds

\* C17 witness: after a round that reached the threshold and left domains
\* over, with budget left, the next round is running.
C17_Witness ==
    /\ pc = "gather"
    /\ rounds_run = 2
    /\ Len(valid) >= min_success_count
    /\ rounds_run <= max_rounds

\* C19: at every round boundary the resolved list and the remaining list
\* together hold each entry of the input as many times as the input does,
\* so their lengths add up to the length of the input.
C19_OccurrencesConserved ==
    AtRoundBoundary =>
        /\ Len(all_valid) + Len(remaining_domains) = Len(domains)
        /\ SameEntries(all_valid \o remaining_domains, domains)

\* C19 witness: a run on an input with a repeated domain is over, with that
\* domain both resolved and unresolved.
C19_Witness ==
    /\ pc = "done"
    /\ ~NoDuplicates(domains)
    /\ Range(all_valid) \cap Range(remaining_domains) # {}

\* C20: the rounds run are at most max_rounds and at most one more than
\* the tens in the length of the input.
C20_RoundCount ==
    /\ rounds_run <= max_rounds
    /\ rounds_run <= (Len(domains) \div min_success_count) + 1

\* C20 witness: a run of several rounds that ran as many rounds as the
\* length of its input allows, with budget left.
C20_Witness ==
    /\ rounds_run >= 2
    /\ rounds_run = (Len(domains) \div min_success_count) + 1
    /\ rounds_run < max_rounds

\* The number of queries the running round has issued for domain d against
\* endpoint g.
Issued(d, g) == CopiesIn(<<d, g>>, issued)

\* C18, as amended: while a round runs, every entry of its input is in
\* exactly one shard; for every endpoint the entries of its shard that are
\* no longer waiting were each queried once against that endpoint, and no
\* query goes to an endpoint for a domain outside its shard; resolve_group
\* runs for the endpoints with a non-empty shard only; and the input of the
\* round holds each domain as many times as the input of the run does less
\* the times it is in the resolved list, so that on duplicate-free input a
\* resolved domain is in no later round.
C18_QueriedOnce ==
    /\ pc = "gather" =>
        /\ SameEntries(Flatten(domain_groups, 1), round_domains)
        /\ \A g \in Servers : \A d \in Range(domains) :
               Issued(d, g) + Count(waiting[g], d) = Count(domain_groups[g], d)
        /\ \A d \in Range(domains) :
               Count(round_domains, d) + Count(all_valid, d) = Count(domains, d)
        /\ NoDuplicates(domains) =>
               \A q \in BagToSet(issued) : q[1] \notin Range(all_valid)
    /\ \A q \in BagToSet(issued) :
           q[1] \in Range(domain_groups[q[2]]) /\ gstate[q[2]] # "idle"
    /\ \A g \in Servers : gstate[g] # "idle" => domain_groups[g] # <<>>

\* C18 witness: in a second round one endpoint was dealt nothing and is left
\* idle while the queries of the round have gone to the other.
C18_Witness ==
    /\ pc = "gather"
    /\ rounds_run = 2
    /\ issued # EmptyBag
    /\ \E g \in Servers : domain_groups[g] = <<>> /\ gstate[g] = "idle"
    /\ \A g \in Servers : waiting[g] = <<>>

\* C18 as stated: no query of a round is for a domain that is in the
\* resolved list of the earlier rounds.
C18_NeverQueriedAgain ==
    \A q \in BagToSet(issued) : q[1] \notin Range(all_valid)

\* The place in list s of its j-th entry outside set S.
NthKept(s, S, j) ==
    CHOOSE i \in 1..Len(s) :
        /\ s[i] \notin S
        /\ Cardinality({k \in 1..i : s[k] \notin S}) = j

\* C13: once apply_filter has run, its list is the fetched list without the
\* entries that are in the filter set, every other entry kept as often as
\* it occurs and in the order of the fetched list; its count is the number
\* of entries of the fetched list that are in the filter set, which is the
\* length of the fetched list less that of the result; and a filter set
\* that holds no entry of the fetched list leaves the list as it is.
C13_ApplyFilter ==
    main_pc \in {"batch", "returned"} =>
        /\ Len(filtered_domains) =
               Cardinality({i \in 1..Len(raw_domains) :
                               raw_domains[i] \notin filter_domains})
        /\ \A j \in 1..Len(filtered_domains) :
               filtered_domains[j] =
                   raw_domains[NthKept(raw_domains, filter_domains, j)]
        /\ filtered_count =
               Cardinality({i \in 1..Len(raw_domains) :
                               raw_domains[i] \in filter_domains})
        /\ filtered_count = Len(raw_domains) - Len(filtered_domains)
        /\ Range(raw_domains) \cap filter_domains = {} =>
               filtered_domains = raw_domains /\ filtered_count = 0

\* C13 witness: of a fetched list of three domains one was removed and two
\* are left, and the filter set holds an entry that is not in the list.
C13_Witness ==
    /\ main_pc \in {"batch", "returned"}
    /\ Len(raw_domains) = 3
    /\ filtered_count = 1
    /\ Len(filtered_domains) = 2
    /\ filter_domains \ Range(raw_domains) # {}

\* C14: no query is issued and nothing is resolved as long as no round has
\* run; when main returns because the fetched list is empty or wholly
\* filtered, and when batch_resolve returns from a call with an empty list,
\* no round has run and the resolved and the remaining list are empty; and
\* only a failed request for the domain list raises out of main.
C14_NothingToResolve ==
    /\ rounds_run = 0 =>
           issued = EmptyBag /\ inflight = EmptyBag /\ all_valid = <<>>
    /\ (main_pc = "returned" /\ filtered_domains = <<>>) =>
           rounds_run = 0 /\ all_valid = <<>> /\ remaining_domains = <<>>
    /\ (pc \in {"summary", "done"} /\ domains = <<>>) =>
           rounds_run = 0 /\ all_valid = <<>> /\ remaining_domains = <<>>
    /\ pc # "raised"
    /\ main_pc = "raised" => ~source.ok

\* C14 witness: main has returned after the filter removed every entry of a
\* list that was not empty.
C14_Witness ==
    /\ main_pc = "returned"
    /\ raw_domains # <<>>
    /\ filtered_domains = <<>>
    /\ filtered_count = Len(raw_domains)

\* C15: the filter set is at any time the union of the entries of the urls
\* requested so far that answered; the urls are requested in turn whatever
\* came of the earlier ones, so that when fetch_filter_domains has returned
\* every url was requested and the set is the union of the entries of the
\* urls that answered; and no failure of a filter url raises out of main.
C15_FilterUnion ==
    /\ filter_domains =
           UNION {Range(ParseLines(filter_sources[i].text)) :
                     i \in {j \in fetched : filter_sources[j].ok}}
    /\ fetched = 1..(url_index - 1)
    /\ main_pc \in {"batch", "returned"} =>
           fetched = 1..Len(filter_sources)
    /\ (main_pc = "raised" \/ main_pc = "fetch_domains") => fetched = {}

\* C15 witness: fetch_filter_domains has returned after a url that answered,
\* one that failed and one that answered again; the set holds the entries of
\* the two that answered and none of the one that failed.
C15_Witness ==
    /\ main_pc \in {"batch", "returned"}
    /\ \E i, j, k \in 1..Len(filter_sources) :
           /\ i < j /\ j < k
           /\ filter_sources[i].ok
           /\ ~filter_sources[j].ok
           /\ filter_sources[k].ok
           /\ Range(ParseLines(filter_sources[i].text)) \subseteq filter_domains
           /\ Range(ParseLines(filter_sources[k].text)) \subseteq filter_domains
           /\ Range(ParseLines(filter_sources[j].text)) \cap filter_domains = {}

====
